---- MODULE Spec2Model ----
(***************************************************************************)
(* Model of the CEGAR pattern-collection generator of                      *)
(* src/search/pdbs/cegar.cc (class Cegar): seeding, flaw extraction by     *)
(* projecting wildcard plans onto the concrete task, the refinement        *)
(* operators merge / extend / blacklist with their size bookkeeping, and   *)
(* the main loop of Cegar::generate.                                       *)
(*                                                                         *)
(* The planning task and the options are inputs chosen in Init.  The PDB   *)
(* and abstract plan of a pattern (class AbstractSolutionData) and         *)
(* utils::is_product_within_limit are not part of cegar.cc; they are       *)
(* modelled from the specification text.                                   *)
(***************************************************************************)
EXTENDS Integers, Sequences, FiniteSets, TLC

\* numeric_limits<int>::max(): the value the option parser gives "infinity".
Infinity == 2147483647

\* Largest finite value of the option max_refinements that Init draws.
MaxRefinementsBound == 1

(***************************************************************************)
(* Planning tasks (TaskProxy).  Variables are 0 .. NumVars-1; a state maps *)
(* every variable to a value; preconditions, effects and goals are partial *)
(* assignments (functions on a subset of the variables).                   *)
(***************************************************************************)
EmptyAssignment == [v \in {} |-> 0]

Op(pre, eff) == [pre |-> pre, eff |-> eff]
a_needs_b  == Op((1 :> 1), (0 :> 1))
a_needs_c2 == Op((2 :> 2), (0 :> 1))
b_needs_c1 == Op((2 :> 1), (1 :> 1))
set_a      == Op(EmptyAssignment, (0 :> 1))
set_b      == Op(EmptyAssignment, (1 :> 1))
set_c1     == Op(EmptyAssignment, (2 :> 1))
set_c2     == Op((2 :> 1), (2 :> 2))
set_a_b    == Op(EmptyAssignment, (0 :> 1) @@ (1 :> 1))
c1_needs_b == Op((1 :> 1), (2 :> 1))
c2_needs_a == Op((0 :> 1) @@ (2 :> 1), (2 :> 2))

Domains == (0 :> 2) @@ (1 :> 2) @@ (2 :> 3)
InitialState == [v \in DOMAIN Domains |-> 0]
Task(goal, ops) == [dom |-> Domains, init |-> InitialState, goal |-> goal, ops |-> ops]

Tasks ==
    { Task((0 :> 0), << >>),
      Task((0 :> 1), << set_b >>),
      Task((0 :> 1), << a_needs_b >>),
      Task((0 :> 1), << a_needs_b, set_b >>),
      Task((0 :> 1) @@ (1 :> 1), << a_needs_b, set_b >>),
      Task((0 :> 1) @@ (1 :> 1), << set_a, set_b >>),
      Task((0 :> 1) @@ (1 :> 1), << set_a_b >>),
      Task((0 :> 1), << a_needs_b, a_needs_c2, set_b, set_c1, set_c2 >>),
      Task((0 :> 1) @@ (2 :> 2), << a_needs_b, b_needs_c1, set_c1, set_c2 >>),
      Task((0 :> 1) @@ (1 :> 1) @@ (2 :> 2), << a_needs_b, set_b, set_c1, set_c2 >>),
      Task((2 :> 2), << c1_needs_b, set_c1, c2_needs_a >>) }

VARIABLES
    task,                    \* const std::shared_ptr<AbstractTask> &task
    max_refinements, max_pdb_size, max_collection_size, wildcard_plans,
    ignore_goal_violations, global_blacklist_size, initial, given_goal,
    max_time_finite,         \* max_time < infinity
    timer_expired,           \* utils::CountdownTimer::is_expired()
    remaining_goals,         \* std::vector<int>
    global_blacklist,        \* std::unordered_set<int>
    solutions,               \* std::vector<std::unique_ptr<AbstractSolutionData>>
    solution_lookup,         \* std::unordered_map<int, int>
    collection_size,
    concrete_solution_index,
    refinement_counter,      \* local of generate()
    flaws,                   \* local of generate(): result of get_flaws
    handled,                 \* what handle_flaw did in the last refinement
    patterns,                \* the PatternCollection returned by generate()
    pc                       \* position of the driver generate()

options == << task, max_refinements, max_pdb_size, max_collection_size,
              wildcard_plans, ignore_goal_violations, global_blacklist_size,
              initial, given_goal, max_time_finite >>
collection == << remaining_goals, global_blacklist, solutions, solution_lookup,
                 collection_size, concrete_solution_index >>
vars == << options, timer_expired, collection, refinement_counter, flaws,
           handled, patterns, pc >>

(***************************************************************************)
(* Small helpers on sequences.                                             *)
(***************************************************************************)
Range(s) == { s[i] : i \in DOMAIN s }

RECURSIVE Insert(_, _)
Insert(sorted, x) ==
    IF sorted = << >> THEN << x >>
    ELSE IF x <= Head(sorted) THEN << x >> \o sorted
    ELSE << Head(sorted) >> \o Insert(Tail(sorted), x)

\* std::sort on a vector<int>
RECURSIVE Sort(_)
Sort(s) == IF s = << >> THEN << >> ELSE Insert(Sort(Tail(s)), Head(s))

\* rng->shuffle: every ordering of the elements of a set
Permutations_(S) ==
    { p \in [1 .. Cardinality(S) -> S] : \A x \in S : \E i \in DOMAIN p : p[i] = x }


(***************************************************************************)
(* TaskProxy queries on the task of the run.                               *)
(***************************************************************************)
NumVars == Cardinality(DOMAIN task.dom)       \* task_proxy.get_variables().size()
Variables == 0 .. (NumVars - 1)
NumOps == Len(task.ops)
GoalVars == DOMAIN task.goal

\* task_properties::is_goal_state
is_goal_state(state) == \A g \in GoalVars : state[g] = task.goal[g]

\* State::get_unregistered_successor
get_unregistered_successor(state, op) ==
    [v \in DOMAIN state |-> IF v \in DOMAIN op.eff THEN op.eff[v] ELSE state[v]]

(***************************************************************************)
(* AbstractSolutionData: the PDB and an optimal abstract plan of the       *)
(* projection of the task onto a pattern.  An abstract plan is a sequence  *)
(* of steps, each the ascending sequence of the operators that induce the  *)
(* same abstract transition (one operator per step without wildcards).     *)
(***************************************************************************)
\* PatternDatabase::get_size: the product of the pattern's domain sizes
RECURSIVE get_size(_)
get_size(pattern) ==
    IF pattern = << >> THEN 1
    ELSE task.dom[Head(pattern)] * get_size(Tail(pattern))

AbstractStates(P) ==
    { s \in [P -> UNION { 0 .. (task.dom[v] - 1) : v \in P }] :
        \A v \in P : s[v] < task.dom[v] }
AbstractInit(P) == [v \in P |-> task.init[v]]
AbstractGoal(P, s) == \A g \in GoalVars \cap P : s[g] = task.goal[g]
AbstractApplicable(P, s, op) == \A v \in DOMAIN op.pre \cap P : s[v] = op.pre[v]
AbstractSuccessor(P, s, op) ==
    [v \in P |-> IF v \in DOMAIN op.eff THEN op.eff[v] ELSE s[v]]

\* the operators that lead from abstract state s to abstract state t, ascending
TransitionOps(P, s, t) ==
    SelectSeq([i \in 1 .. NumOps |-> i],
              LAMBDA i : /\ AbstractApplicable(P, s, task.ops[i])
                         /\ AbstractSuccessor(P, s, task.ops[i]) = t)

\* the one element of a singleton set; Only({ e(x) : x \in {v} }) is e(v)
\* with v evaluated once
Only(S) == CHOOSE x \in S : TRUE

\* The PDB: the goal distance (unit costs) of every abstract state that can
\* reach an abstract goal state, computed backwards layer by layer. table
\* holds the states of distance at most n.
RECURSIVE DistanceTable(_, _, _)
DistanceTable(P, table, n) ==
    Only({ IF new = {} THEN table
           ELSE Only({ DistanceTable(P, larger, n + 1) :
                         larger \in { [s \in new |-> n + 1] @@ table } }) :
           new \in { { s \in AbstractStates(P) \ DOMAIN table :
                         \E t \in DOMAIN table :
                            table[t] = n /\ TransitionOps(P, s, t) # << >> } } })

Distances(P) ==
    DistanceTable(P, [s \in { g \in AbstractStates(P) : AbstractGoal(P, g) } |-> 0], 0)

Steps(P, s, t) ==
    IF wildcard_plans THEN { TransitionOps(P, s, t) }
    ELSE { << TransitionOps(P, s, t)[i] >> : i \in DOMAIN TransitionOps(P, s, t) }

\* the optimal plans from abstract state s, given the distance table
RECURSIVE OptimalPlans(_, _, _)
OptimalPlans(P, table, s) ==
    IF table[s] = 0 THEN { << >> }
    ELSE UNION { { << step >> \o rest : step \in Steps(P, s, t),
                                         rest \in OptimalPlans(P, table, t) } :
                 t \in { u \in DOMAIN table :
                           table[u] = table[s] - 1 /\ TransitionOps(P, s, u) # << >> } }

Entry(pattern, plan, exists) ==
    [ null |-> FALSE, pattern |-> pattern, plan |-> plan,
      is_solved |-> FALSE, solution_exists |-> exists ]
nullptr ==
    [ null |-> TRUE, pattern |-> << >>, plan |-> << >>,
      is_solved |-> FALSE, solution_exists |-> FALSE ]

\* the entries the constructor AbstractSolutionData(task, pattern, rng, ...) can build
AbstractSolutionData(pattern) ==
    Only({ IF init \in DOMAIN table
           THEN { Entry(pattern, plan, TRUE) :
                    plan \in OptimalPlans(DOMAIN init, table, init) }
           ELSE { Entry(pattern, << >>, FALSE) } :
           init \in { AbstractInit(Range(pattern)) },
           table \in { Distances(Range(pattern)) } })

(***************************************************************************)
(* Flaw extraction: Cegar::apply_wildcard_plan and Cegar::get_flaws.       *)
(* Solution indices, like variables, count from 0 as in the code;          *)
(* solutions[i + 1] is the code's solutions[i].                            *)
(***************************************************************************)
Flaw(solution_index, var) == [solution_index |-> solution_index, variable |-> var]

\* Faulty variant of PreconditionFlaws: blacklisted variables are not skipped.
RECURSIVE PreconditionFlaws_blacklist_not_skipped(_, _, _, _)
PreconditionFlaws_blacklist_not_skipped(op, current, solution_index, var) ==
    IF var >= NumVars THEN << >>
    ELSE (IF var \in DOMAIN op.pre /\ current[var] # op.pre[var]
          THEN << Flaw(solution_index, var) >>
          ELSE << >>)
         \o PreconditionFlaws_blacklist_not_skipped(op, current, solution_index, var + 1)

\* the loop over op.get_preconditions() of one operator, from variable var on
RECURSIVE PreconditionFlaws(_, _, _, _)
PreconditionFlaws(op, current, solution_index, var) ==
    IF var >= NumVars THEN << >>
    ELSE (IF /\ var \in DOMAIN op.pre
             /\ var \notin global_blacklist
             /\ current[var] # op.pre[var]
          THEN << Flaw(solution_index, var) >>
          ELSE << >>)
         \o PreconditionFlaws(op, current, solution_index, var + 1)

\* Faulty variant of TryEquivalentOps: the applicable operator is not applied,
\* the execution stays in the state it was in.
RECURSIVE TryEquivalentOps_state_not_advanced(_, _, _, _, _)
TryEquivalentOps_state_not_advanced(equivalent_ops, i, current, solution_index, collected) ==
    IF i > Len(equivalent_ops)
    THEN [step_failed |-> TRUE, flaws |-> collected, current |-> current, op_id |-> 0]
    ELSE LET op == task.ops[equivalent_ops[i]]
             found == PreconditionFlaws(op, current, solution_index, 0)
         IN  IF found = << >>
             THEN [step_failed |-> FALSE, flaws |-> << >>,
                   current |-> current,
                   op_id |-> equivalent_ops[i]]
             ELSE TryEquivalentOps_state_not_advanced(
                      equivalent_ops, i + 1, current, solution_index, collected \o found)

\* Faulty variant of TryEquivalentOps: only the flaws of the operator tried
\* last are kept.
RECURSIVE TryEquivalentOps_earlier_flaws_dropped(_, _, _, _, _)
TryEquivalentOps_earlier_flaws_dropped(equivalent_ops, i, current, solution_index, collected) ==
    IF i > Len(equivalent_ops)
    THEN [step_failed |-> TRUE, flaws |-> collected, current |-> current, op_id |-> 0]
    ELSE LET op == task.ops[equivalent_ops[i]]
             found == PreconditionFlaws(op, current, solution_index, 0)
         IN  IF found = << >>
             THEN [step_failed |-> FALSE, flaws |-> << >>,
                   current |-> get_unregistered_successor(current, op),
                   op_id |-> equivalent_ops[i]]
             ELSE TryEquivalentOps_earlier_flaws_dropped(
                      equivalent_ops, i + 1, current, solution_index, found)

\* the loop over equivalent_ops of one plan step, from position i on
RECURSIVE TryEquivalentOps(_, _, _, _, _)
TryEquivalentOps(equivalent_ops, i, current, solution_index, collected) ==
    IF i > Len(equivalent_ops)
    THEN [step_failed |-> TRUE, flaws |-> collected, current |-> current, op_id |-> 0]
    ELSE LET op == task.ops[equivalent_ops[i]]
             found == PreconditionFlaws(op, current, solution_index, 0)
         IN  IF found = << >>
             THEN [step_failed |-> FALSE, flaws |-> << >>,
                   current |-> get_unregistered_successor(current, op),
                   op_id |-> equivalent_ops[i]]
             ELSE TryEquivalentOps(equivalent_ops, i + 1, current, solution_index,
                                   collected \o found)

\* the loop over the plan's steps, from step n on; applied lists the chosen operators
RECURSIVE ExecutePlan(_, _, _, _, _)
ExecutePlan(plan, n, current, solution_index, applied) ==
    IF n > Len(plan)
    THEN [flaws |-> << >>, current |-> current, applied |-> applied]
    ELSE LET step == TryEquivalentOps(plan[n], 1, current, solution_index, << >>)
         IN  IF step.step_failed
             THEN [flaws |-> step.flaws, current |-> current, applied |-> applied]
             ELSE ExecutePlan(plan, n + 1, step.current, solution_index,
                              Append(applied, step.op_id))

\* Faulty variant of GoalFlaws: remaining_goals is not consulted.
RECURSIVE GoalFlaws_remaining_goals_not_tested(_, _, _)
GoalFlaws_remaining_goals_not_tested(current, solution_index, var) ==
    IF var >= NumVars THEN << >>
    ELSE (IF /\ var \in GoalVars
             /\ current[var] # task.goal[var]
             /\ var \notin global_blacklist
          THEN << Flaw(solution_index, var) >>
          ELSE << >>)
         \o GoalFlaws_remaining_goals_not_tested(current, solution_index, var + 1)

\* the loop over task_proxy.get_goals(), from variable var on
RECURSIVE GoalFlaws(_, _, _)
GoalFlaws(current, solution_index, var) ==
    IF var >= NumVars THEN << >>
    ELSE (IF /\ var \in GoalVars
             /\ current[var] # task.goal[var]
             /\ var \notin global_blacklist
             /\ var \in Range(remaining_goals)
          THEN << Flaw(solution_index, var) >>
          ELSE << >>)
         \o GoalFlaws(current, solution_index, var + 1)

\* Faulty variant of apply_wildcard_plan: a plan that ends in a goal state is
\* reported as a concrete solution without the test for an empty blacklist.
apply_wildcard_plan_blacklist_not_tested(solution, solution_index) ==
    LET run == ExecutePlan(solution.plan, 1, task.init, solution_index, << >>)
        result(fl, concrete, mark) ==
            [flaws |-> fl, concrete |-> concrete, mark_as_solved |-> mark]
    IN  IF run.flaws = << >>
        THEN IF is_goal_state(run.current)
             THEN result(<< >>, TRUE, FALSE)
             ELSE IF ~ignore_goal_violations
                  THEN result(GoalFlaws(run.current, solution_index, 0), FALSE, FALSE)
                  ELSE result(<< >>, FALSE, TRUE)
        ELSE result(run.flaws, FALSE, FALSE)

\* Result of apply_wildcard_plan on one entry: the flaws it returns, and
\* whether it sets concrete_solution_index or marks the entry as solved.
apply_wildcard_plan(solution, solution_index) ==
    LET run == ExecutePlan(solution.plan, 1, task.init, solution_index, << >>)
        result(fl, concrete, mark) ==
            [flaws |-> fl, concrete |-> concrete, mark_as_solved |-> mark]
    IN  IF run.flaws = << >>
        THEN IF is_goal_state(run.current)
             THEN IF global_blacklist = {}
                  THEN result(<< >>, TRUE, FALSE)
                  ELSE result(<< >>, FALSE, TRUE)
             ELSE IF ~ignore_goal_violations
                  THEN result(GoalFlaws(run.current, solution_index, 0), FALSE, FALSE)
                  ELSE result(<< >>, FALSE, TRUE)
        ELSE result(run.flaws, FALSE, FALSE)

\* Faulty variant of get_flaws_from: solution_exists() is not tested.
RECURSIVE get_flaws_from_unsolvable_not_tested(_, _, _)
get_flaws_from_unsolvable_not_tested(solution_index, sols, collected) ==
    IF solution_index >= Len(sols)
    THEN [exit |-> FALSE, flaws |-> collected, solutions |-> sols,
          concrete_solution_index |-> -1]
    ELSE LET solution == sols[solution_index + 1]
             new == apply_wildcard_plan(solution, solution_index)
         IN  IF solution.null \/ solution.is_solved
             THEN get_flaws_from_unsolvable_not_tested(solution_index + 1, sols, collected)
             ELSE IF new.concrete
             THEN [exit |-> FALSE, flaws |-> << >>, solutions |-> sols,
                   concrete_solution_index |-> solution_index]
             ELSE get_flaws_from_unsolvable_not_tested(
                      solution_index + 1,
                      IF new.mark_as_solved
                      THEN [sols EXCEPT ![solution_index + 1].is_solved = TRUE]
                      ELSE sols,
                      collected \o new.flaws)

\* the loop of get_flaws over the slots, from solution_index on
RECURSIVE get_flaws_from(_, _, _)
get_flaws_from(solution_index, sols, collected) ==
    IF solution_index >= Len(sols)
    THEN [exit |-> FALSE, flaws |-> collected, solutions |-> sols,
          concrete_solution_index |-> -1]
    ELSE LET solution == sols[solution_index + 1]
             new == apply_wildcard_plan(solution, solution_index)
         IN  IF solution.null \/ solution.is_solved
             THEN get_flaws_from(solution_index + 1, sols, collected)
             ELSE IF ~solution.solution_exists
             THEN [exit |-> TRUE, flaws |-> << >>, solutions |-> sols,
                   concrete_solution_index |-> -1]
             ELSE IF new.concrete
             THEN [exit |-> FALSE, flaws |-> << >>, solutions |-> sols,
                   concrete_solution_index |-> solution_index]
             ELSE get_flaws_from(
                      solution_index + 1,
                      IF new.mark_as_solved
                      THEN [sols EXCEPT ![solution_index + 1].is_solved = TRUE]
                      ELSE sols,
                      collected \o new.flaws)

get_flaws == get_flaws_from(0, solutions, << >>)

(***************************************************************************)
(* The collection and the refinement operators.  Each takes the collection *)
(* as the record c of the members it changes and returns the new record;   *)
(* the entry built by the AbstractSolutionData constructor is a parameter. *)
(***************************************************************************)
Collection ==
    [ remaining_goals |-> remaining_goals, solutions |-> solutions,
      solution_lookup |-> solution_lookup, collection_size |-> collection_size ]

\* vector::erase(find(...)): remove the first occurrence of x, if any
RECURSIVE Erase(_, _)
Erase(s, x) ==
    IF s = << >> THEN << >>
    ELSE IF Head(s) = x THEN Tail(s)
    ELSE << Head(s) >> \o Erase(Tail(s), x)

update_goals(c, added_var) ==
    [c EXCEPT !.remaining_goals = Erase(c.remaining_goals, added_var)]

add_pattern_for_var(c, var, entry) ==
    [c EXCEPT !.solutions = Append(c.solutions, entry),
              !.solution_lookup = (var :> Len(c.solutions)) @@ c.solution_lookup,
              !.collection_size = c.collection_size + get_size(entry.pattern)]

\* utils::is_product_within_limit
is_product_within_limit(factor1, factor2, limit) ==
    factor2 = 0 \/ factor1 <= limit \div factor2

\* Faulty variant of can_merge_patterns: max_pdb_size is not tested.
can_merge_patterns_pdb_size_not_tested(c, index1, index2) ==
    LET pdb_size1 == get_size(c.solutions[index1 + 1].pattern)
        pdb_size2 == get_size(c.solutions[index2 + 1].pattern)
        added_size == pdb_size1 * pdb_size2 - pdb_size1 - pdb_size2
    IN  c.collection_size + added_size <= max_collection_size

can_merge_patterns(c, index1, index2) ==
    LET pdb_size1 == get_size(c.solutions[index1 + 1].pattern)
        pdb_size2 == get_size(c.solutions[index2 + 1].pattern)
        added_size == pdb_size1 * pdb_size2 - pdb_size1 - pdb_size2
    IN  /\ is_product_within_limit(pdb_size1, pdb_size2, max_pdb_size)
        /\ c.collection_size + added_size <= max_collection_size

MergedPattern(c, index1, index2) ==
    Sort(c.solutions[index1 + 1].pattern \o c.solutions[index2 + 1].pattern)

\* Faulty variant of merge_patterns: the size of the second PDB is not subtracted.
merge_patterns_size2_kept(c, index1, index2, merged) ==
    LET pattern2 == c.solutions[index2 + 1].pattern
        pdb_size1 == get_size(c.solutions[index1 + 1].pattern)
    IN  [c EXCEPT
           !.solution_lookup =
               [v \in DOMAIN c.solution_lookup |->
                   IF v \in Range(pattern2) THEN index1 ELSE c.solution_lookup[v]],
           !.collection_size = c.collection_size - pdb_size1 + get_size(merged.pattern),
           !.solutions =
               [[c.solutions EXCEPT ![index1 + 1] = merged] EXCEPT ![index2 + 1] = nullptr]]

\* Faulty variant of merge_patterns: the look-up table is not updated.
merge_patterns_lookup_kept(c, index1, index2, merged) ==
    LET pdb_size1 == get_size(c.solutions[index1 + 1].pattern)
        pdb_size2 == get_size(c.solutions[index2 + 1].pattern)
    IN  [c EXCEPT
           !.collection_size =
               c.collection_size - pdb_size1 - pdb_size2 + get_size(merged.pattern),
           !.solutions =
               [[c.solutions EXCEPT ![index1 + 1] = merged] EXCEPT ![index2 + 1] = nullptr]]

\* Faulty variant of merge_patterns: the slot of the second entry is not emptied.
merge_patterns_index2_kept(c, index1, index2, merged) ==
    LET pattern2 == c.solutions[index2 + 1].pattern
        pdb_size1 == get_size(c.solutions[index1 + 1].pattern)
        pdb_size2 == get_size(pattern2)
    IN  [c EXCEPT
           !.solution_lookup =
               [v \in DOMAIN c.solution_lookup |->
                   IF v \in Range(pattern2) THEN index1 ELSE c.solution_lookup[v]],
           !.collection_size =
               c.collection_size - pdb_size1 - pdb_size2 + get_size(merged.pattern),
           !.solutions = [c.solutions EXCEPT ![index1 + 1] = merged]]

\* Faulty variant of merge_patterns: the merged entry is put in the slot of the
\* second entry and the slot of the first is emptied.
merge_patterns_slots_swapped(c, index1, index2, merged) ==
    LET pattern2 == c.solutions[index2 + 1].pattern
        pdb_size1 == get_size(c.solutions[index1 + 1].pattern)
        pdb_size2 == get_size(pattern2)
    IN  [c EXCEPT
           !.solution_lookup =
               [v \in DOMAIN c.solution_lookup |->
                   IF v \in Range(pattern2) THEN index1 ELSE c.solution_lookup[v]],
           !.collection_size =
               c.collection_size - pdb_size1 - pdb_size2 + get_size(merged.pattern),
           !.solutions =
               [[c.solutions EXCEPT ![index2 + 1] = merged] EXCEPT ![index1 + 1] = nullptr]]

merge_patterns(c, index1, index2, merged) ==
    LET pattern2 == c.solutions[index2 + 1].pattern
        pdb_size1 == get_size(c.solutions[index1 + 1].pattern)
        pdb_size2 == get_size(pattern2)
    IN  [c EXCEPT
           !.solution_lookup =
               [v \in DOMAIN c.solution_lookup |->
                   IF v \in Range(pattern2) THEN index1 ELSE c.solution_lookup[v]],
           !.collection_size =
               c.collection_size - pdb_size1 - pdb_size2 + get_size(merged.pattern),
           !.solutions =
               [[c.solutions EXCEPT ![index1 + 1] = merged] EXCEPT ![index2 + 1] = nullptr]]

\* Faulty variant of can_add_variable_to_pattern: max_collection_size is not tested.
can_add_variable_to_pattern_collection_size_not_tested(c, index, var) ==
    LET pdb_size == get_size(c.solutions[index + 1].pattern)
        domain_size == task.dom[var]
    IN  is_product_within_limit(pdb_size, domain_size, max_pdb_size)

can_add_variable_to_pattern(c, index, var) ==
    LET pdb_size == get_size(c.solutions[index + 1].pattern)
        domain_size == task.dom[var]
        added_size == pdb_size * domain_size - pdb_size
    IN  /\ is_product_within_limit(pdb_size, domain_size, max_pdb_size)
        /\ c.collection_size + added_size <= max_collection_size

ExtendedPattern(c, index, var) == Sort(Append(c.solutions[index + 1].pattern, var))

\* Faulty variant of add_variable_to_pattern: update_goals is not called.
add_variable_to_pattern_goals_not_updated(c, index, var, new_solution) ==
    [c EXCEPT
       !.collection_size =
           c.collection_size - get_size(c.solutions[index + 1].pattern)
                             + get_size(new_solution.pattern),
       !.solution_lookup = (var :> index) @@ c.solution_lookup,
       !.solutions = [c.solutions EXCEPT ![index + 1] = new_solution]]

add_variable_to_pattern(c, index, var, new_solution) ==
    update_goals(
        [c EXCEPT
           !.collection_size =
               c.collection_size - get_size(c.solutions[index + 1].pattern)
                                 + get_size(new_solution.pattern),
           !.solution_lookup = (var :> index) @@ c.solution_lookup,
           !.solutions = [c.solutions EXCEPT ![index + 1] = new_solution]],
        var)

SetCollection(c) ==
    /\ remaining_goals' = c.remaining_goals
    /\ solutions' = c.solutions
    /\ solution_lookup' = c.solution_lookup
    /\ collection_size' = c.collection_size

\* Faulty variant of Blacklist: the variable is also taken off the remaining goals.
Blacklist_goals_updated(var) ==
    /\ global_blacklist' = global_blacklist \cup {var}
    /\ handled' = "blacklist"
    /\ pc' = "loop"
    /\ remaining_goals' = update_goals(Collection, var).remaining_goals
    /\ UNCHANGED << solutions, solution_lookup, collection_size >>

\* Faulty variant of Blacklist: the variable is not inserted.
Blacklist_not_inserted(var) ==
    /\ handled' = "blacklist"
    /\ pc' = "loop"
    /\ UNCHANGED << global_blacklist, remaining_goals, solutions, solution_lookup,
                    collection_size >>

Blacklist(var) ==
    /\ global_blacklist' = global_blacklist \cup {var}
    /\ handled' = "blacklist"
    /\ pc' = "loop"
    /\ UNCHANGED << remaining_goals, solutions, solution_lookup, collection_size >>

Merge(index1, index2) ==
    /\ \E merged \in AbstractSolutionData(MergedPattern(Collection, index1, index2)) :
          SetCollection(merge_patterns(Collection, index1, index2, merged))
    /\ handled' = "merge"
    /\ pc' = "loop"
    /\ UNCHANGED global_blacklist

\* Faulty variant of Extend: the variable gets a new entry of its own.
Extend_as_new_singleton(index, var) ==
    /\ \E entry \in AbstractSolutionData(<< var >>) :
          SetCollection(add_pattern_for_var(update_goals(Collection, var), var, entry))
    /\ handled' = "extend"
    /\ pc' = "loop"
    /\ UNCHANGED global_blacklist

Extend(index, var) ==
    /\ \E new_solution \in AbstractSolutionData(ExtendedPattern(Collection, index, var)) :
          SetCollection(add_variable_to_pattern(Collection, index, var, new_solution))
    /\ handled' = "extend"
    /\ pc' = "loop"
    /\ UNCHANGED global_blacklist

\* Faulty variant of handle_flaw: solution_lookup is not consulted, the variable
\* is always added to the pattern of the flaw.
handle_flaw_lookup_not_consulted(flaw) ==
    IF can_add_variable_to_pattern(Collection, flaw.solution_index, flaw.variable)
    THEN Extend(flaw.solution_index, flaw.variable)
    ELSE Blacklist(flaw.variable)

\* Faulty variant of handle_flaw: the variable is blacklisted without trying to
\* merge or to extend.
handle_flaw_always_blacklists(flaw) == Blacklist(flaw.variable)

\* Cegar::handle_flaw.  When one of its two assertions does not hold, a build
\* with assertions stops there and a build without them goes on.
handle_flaw(flaw) ==
    LET sol_index == flaw.solution_index
        var == flaw.variable
    IN  IF var \in DOMAIN solution_lookup
        THEN LET other_index == solution_lookup[var]
                 merge_or_blacklist ==
                     IF can_merge_patterns(Collection, sol_index, other_index)
                     THEN Merge(sol_index, other_index)
                     ELSE Blacklist(var)
             IN  IF other_index # sol_index /\ ~solutions[other_index + 1].null
                 THEN merge_or_blacklist
                 ELSE \/ /\ pc' = "assertion_failure"
                         /\ UNCHANGED << collection, handled >>
                      \/ /\ ~solutions[other_index + 1].null
                         /\ merge_or_blacklist
                      \/ /\ solutions[other_index + 1].null
                         /\ pc' = "undefined_behaviour"
                         /\ UNCHANGED << collection, handled >>
        ELSE IF can_add_variable_to_pattern(Collection, sol_index, var)
             THEN Extend(sol_index, var)
             ELSE Blacklist(var)

(***************************************************************************)
(* Cegar::generate.                                                        *)
(***************************************************************************)
\* the loop of the ALL_GOALS case: the collections that seeding c can give
RECURSIVE SeedAllGoals(_)
SeedAllGoals(c) ==
    IF c.remaining_goals = << >> THEN { c }
    ELSE LET var == c.remaining_goals[Len(c.remaining_goals)]
             popped == [c EXCEPT !.remaining_goals =
                            SubSeq(c.remaining_goals, 1, Len(c.remaining_goals) - 1)]
         IN  UNION { SeedAllGoals(add_pattern_for_var(popped, var, entry)) :
                       entry \in AbstractSolutionData(<< var >>) }

\* the collections that generate_trivial_solution_collection can give from c
generate_trivial_solution_collection(c) ==
    CASE initial = "GIVEN_GOAL" ->
            { add_pattern_for_var(update_goals(c, given_goal), given_goal, entry) :
                entry \in AbstractSolutionData(<< given_goal >>) }
      [] initial = "RANDOM_GOAL" ->
            LET var == c.remaining_goals[Len(c.remaining_goals)]
                popped == [c EXCEPT !.remaining_goals =
                               SubSeq(c.remaining_goals, 1, Len(c.remaining_goals) - 1)]
            IN  { add_pattern_for_var(popped, var, entry) :
                    entry \in AbstractSolutionData(<< var >>) }
      [] initial = "ALL_GOALS" -> SeedAllGoals(c)

Min(x, y) == IF x <= y THEN x ELSE y

\* Faulty variant of InitialBlacklists: goal variables are not excluded.
InitialBlacklists_goals_not_excluded ==
    IF global_blacklist_size # 0
    THEN { B \in SUBSET Variables :
             Cardinality(B) = Min(global_blacklist_size, Cardinality(Variables \ GoalVars)) }
    ELSE { {} }

\* the sets the random selection of non-goal variables can blacklist
InitialBlacklists ==
    IF global_blacklist_size # 0
    THEN { B \in SUBSET (Variables \ GoalVars) :
             Cardinality(B) = Min(global_blacklist_size, Cardinality(Variables \ GoalVars)) }
    ELSE { {} }

given_goal_rejected ==
    /\ given_goal # -1
    /\ given_goal >= NumVars \/ given_goal \notin GoalVars

\* Faulty variant of termination_conditions_met: refinement_counter is not tested.
termination_conditions_met_counter_not_tested == timer_expired

termination_conditions_met == timer_expired \/ refinement_counter = max_refinements

Init ==
    /\ task \in Tasks
    /\ max_refinements \in (0 .. MaxRefinementsBound) \cup {Infinity}
    /\ max_pdb_size \in {3, 6, 1000000}
    /\ max_collection_size \in {4, 8, Infinity}
    /\ wildcard_plans \in BOOLEAN
    /\ ignore_goal_violations \in BOOLEAN
    /\ global_blacklist_size \in {0, 1, Infinity}
    /\ initial \in {"GIVEN_GOAL", "RANDOM_GOAL", "ALL_GOALS"}
    /\ given_goal \in IF initial = "GIVEN_GOAL" THEN -2 .. NumVars ELSE {-1, NumVars}
    /\ max_time_finite \in BOOLEAN
    /\ timer_expired = FALSE
    /\ remaining_goals = << >>
    /\ global_blacklist = {}
    /\ solutions = << >>
    /\ solution_lookup = EmptyAssignment
    /\ collection_size = 0
    /\ concrete_solution_index = -1
    /\ refinement_counter = 0
    /\ flaws = << >>
    /\ handled = "none"
    /\ patterns = << >>
    /\ pc = "start"

\* the countdown timer runs out (at any time, when max_time is finite)
TimerExpires ==
    /\ max_time_finite
    /\ ~timer_expired
    /\ pc \in {"start", "loop", "refine"}
    /\ timer_expired' = TRUE
    /\ UNCHANGED << options, collection, refinement_counter, flaws, handled, patterns, pc >>

\* generate() rejects given_goal
InputError ==
    /\ pc = "start"
    /\ given_goal_rejected
    /\ pc' = "input_error"
    /\ UNCHANGED << options, timer_expired, collection, refinement_counter, flaws,
                    handled, patterns >>

\* GIVEN_GOAL without a given goal: assert(given_goal != -1) in
\* generate_trivial_solution_collection fails, or, in a build without
\* assertions, a pattern is built for the variable -1.
SeedWithoutGivenGoal ==
    /\ pc = "start"
    /\ ~given_goal_rejected
    /\ initial = "GIVEN_GOAL" /\ given_goal = -1
    /\ \E shuffled \in Permutations_(GoalVars) : remaining_goals' = shuffled
    /\ global_blacklist' \in InitialBlacklists
    /\ pc' \in {"assertion_failure", "undefined_behaviour"}
    /\ UNCHANGED << options, timer_expired, solutions, solution_lookup, collection_size,
                    concrete_solution_index, refinement_counter, flaws, handled, patterns >>

\* generate() up to the main loop: shuffle the goals, blacklist, seed
Seed ==
    /\ pc = "start"
    /\ ~given_goal_rejected
    /\ ~(initial = "GIVEN_GOAL" /\ given_goal = -1)
    /\ \E shuffled \in Permutations_(GoalVars) :
         \E c \in generate_trivial_solution_collection(
                     [Collection EXCEPT !.remaining_goals = shuffled]) :
            SetCollection(c)
    /\ global_blacklist' \in InitialBlacklists
    /\ pc' = "loop"
    /\ UNCHANGED << options, timer_expired, concrete_solution_index, refinement_counter,
                    flaws, handled, patterns >>

\* the loop condition ends the main loop
LoopExit ==
    /\ pc = "loop"
    /\ termination_conditions_met
    /\ pc' = "output"
    /\ UNCHANGED << options, timer_expired, collection, refinement_counter, flaws,
                    handled, patterns >>

\* one call of get_flaws in the main loop, and the tests on its result
GetFlaws ==
    /\ pc = "loop"
    /\ ~termination_conditions_met
    /\ LET got == get_flaws
       IN  /\ solutions' = got.solutions
           /\ concrete_solution_index' = got.concrete_solution_index
           /\ flaws' = got.flaws
           /\ pc' = IF got.exit THEN "unsolvable"
                    ELSE IF got.flaws = << >> THEN "output"
                    ELSE "refine"
    /\ UNCHANGED << options, timer_expired, remaining_goals, global_blacklist,
                    solution_lookup, collection_size, refinement_counter, handled,
                    patterns >>

\* time_limit_reached after get_flaws ends the main loop
TimeLimitBreak ==
    /\ pc = "refine"
    /\ timer_expired
    /\ flaws' = << >>
    /\ pc' = "output"
    /\ UNCHANGED << options, timer_expired, collection, refinement_counter, handled,
                    patterns >>

\* refine(task, flaws) and ++refinement_counter
Refine ==
    /\ pc = "refine"
    /\ ~timer_expired
    /\ \E random_flaw_index \in DOMAIN flaws : handle_flaw(flaws[random_flaw_index])
    /\ refinement_counter' = refinement_counter + 1
    /\ flaws' = << >>
    /\ UNCHANGED << options, timer_expired, concrete_solution_index, patterns >>

\* the patterns of the live entries, in slot order
RECURSIVE LivePatterns(_)
LivePatterns(sols) ==
    IF sols = << >> THEN << >>
    ELSE (IF Head(sols).null THEN << >> ELSE << Head(sols).pattern >>)
         \o LivePatterns(Tail(sols))

\* Faulty variant of Return: concrete_solution_index is ignored.
Return_concrete_solution_ignored ==
    /\ pc = "output"
    /\ patterns' = LivePatterns(solutions)
    /\ pc' = "done"
    /\ UNCHANGED << options, timer_expired, collection, refinement_counter, flaws,
                    handled >>

\* generate() after the main loop: build the returned collection
Return ==
    /\ pc = "output"
    /\ patterns' = IF concrete_solution_index # -1
                   THEN << solutions[concrete_solution_index + 1].pattern >>
                   ELSE LivePatterns(solutions)
    /\ pc' = "done"
    /\ UNCHANGED << options, timer_expired, collection, refinement_counter, flaws,
                    handled >>

Next ==
    \/ TimerExpires
    \/ InputError
    \/ SeedWithoutGivenGoal
    \/ Seed
    \/ LoopExit
    \/ GetFlaws
    \/ TimeLimitBreak
    \/ Refine
    \/ Return

Spec == Init /\ [][Next]_vars

(***************************************************************************)
(* Properties.                                                             *)
(***************************************************************************)
LiveIndices == { i \in 0 .. (Len(solutions) - 1) : ~solutions[i + 1].null }
PatternOf(i) == solutions[i + 1].pattern
Seeded == pc \in {"loop", "refine", "output", "done", "unsolvable"}

RECURSIVE SumOfLivePdbSizes(_)
SumOfLivePdbSizes(sols) ==
    IF sols = << >> THEN 0
    ELSE (IF Head(sols).null THEN 0 ELSE get_size(Head(sols).pattern))
         + SumOfLivePdbSizes(Tail(sols))

\* C1: after seeding and after every refinement step, collection_size is the
\* sum of the PDB sizes (products of domain sizes) of the live entries.
C1_CollectionSizeIsSum ==
    Seeded => collection_size = SumOfLivePdbSizes(solutions)

\* a merge has just replaced two entries whose sizes are not both 2
C1_Witness ==
    /\ handled = "merge" /\ pc = "loop"
    /\ collection_size = SumOfLivePdbSizes(solutions)
    /\ collection_size >= 6

\* C2: after seeding and after every refinement step, every variable of a live
\* pattern is mapped by solution_lookup to that entry's index, and every key of
\* solution_lookup is mapped to a live slot whose pattern contains the key.
C2_LookupExact ==
    Seeded =>
        /\ \A i \in LiveIndices : \A v \in Range(PatternOf(i)) :
              v \in DOMAIN solution_lookup /\ solution_lookup[v] = i
        /\ \A v \in DOMAIN solution_lookup :
              /\ solution_lookup[v] \in LiveIndices
              /\ v \in Range(PatternOf(solution_lookup[v]))

\* after a merge: a tombstoned slot, and a variable of the entry that was
\* there now mapped to the slot of the merged entry
C2_Witness ==
    /\ pc = "loop"
    /\ \E j \in 0 .. (Len(solutions) - 1) : solutions[j + 1].null
    /\ \E i \in LiveIndices : Len(PatternOf(i)) >= 2
    /\ \A v \in DOMAIN solution_lookup : solution_lookup[v] \in LiveIndices

\* C3: in every state of the driver the live patterns are pairwise disjoint
\* and no pattern holds a variable twice.
C3_PatternsDisjoint ==
    /\ \A i, j \in LiveIndices :
          i # j => Range(PatternOf(i)) \cap Range(PatternOf(j)) = {}
    /\ \A i \in LiveIndices :
          Cardinality(Range(PatternOf(i))) = Len(PatternOf(i))

\* after an extension, next to another live entry
C3_Witness ==
    /\ handled = "extend"
    /\ \E i, j \in LiveIndices : i # j /\ Len(PatternOf(i)) >= 2

\* C4: after a merge or an extension collection_size is at most
\* max_collection_size (collection_size changes in no other step after seeding).
C4_RefinementWithinCollectionLimit ==
    handled \in {"merge", "extend"} => collection_size <= max_collection_size

\* a refinement that uses the collection limit up
C4_Witness ==
    /\ handled \in {"merge", "extend"}
    /\ collection_size = max_collection_size

\* C5: every entry built by a merge or an extension (the entries with more than
\* one variable) has a PDB of at most max_pdb_size states.
C5_RefinedPdbWithinLimit ==
    \A i \in LiveIndices :
        Len(PatternOf(i)) >= 2 => get_size(PatternOf(i)) <= max_pdb_size

\* a refined entry that uses the PDB limit up, next to a seed
C5_Witness ==
    /\ handled \in {"merge", "extend"}
    /\ \E i \in LiveIndices :
          Len(PatternOf(i)) >= 2 /\ get_size(PatternOf(i)) = max_pdb_size

\* C6: no flaw returned by get_flaws names a blacklisted variable.
C6_NoFlawOnBlacklisted ==
    \A n \in DOMAIN flaws : flaws[n].variable \notin global_blacklist

\* flaws extracted after the refiner has blacklisted a variable
C6_Witness ==
    /\ pc = "refine" /\ flaws # << >>
    /\ handled = "blacklist" /\ global_blacklist # {}

UnsolvableEntryLive == \E i \in LiveIndices : ~solutions[i + 1].solution_exists

\* C7 as claimed: with an unsolvable live entry the driver never returns a
\* collection, whatever max_refinements and max_time are.
C7_UnsolvableNeverReturns ==
    UnsolvableEntryLive => pc # "done"

\* C7, amended: a flaw extraction that meets an unsolvable live entry ends
\* the run with Unsolvable, so no refinement follows it and the driver returns
\* a collection with such an entry only when the loop stopped on its budget
\* (refinement_counter = max_refinements, or the deadline) before any flaw
\* extraction looked at the entry.
C7_UnsolvableUnlessBudgetExhausted ==
    UnsolvableEntryLive =>
        /\ pc # "refine"
        /\ pc \in {"output", "done"} => termination_conditions_met

\* Unsolvable raised for an entry that a refinement built
C7_Witness ==
    /\ pc = "unsolvable"
    /\ refinement_counter > 0
    /\ UnsolvableEntryLive

\* C8: with initial = GIVEN_GOAL and a given_goal that is no variable of the
\* task (the default -1 included) or no goal variable, generate() fails with
\* InputError and seeds no entry.
C8_BadGivenGoalIsInputError ==
    ( /\ initial = "GIVEN_GOAL"
      /\ given_goal \notin Variables \/ given_goal \notin GoalVars
      /\ pc # "start" )
    => pc = "input_error" /\ solutions = << >>

\* C9: once concrete_solution_index is k # -1, k is a live slot, no
\* refinement follows, and the returned collection is the pattern of entry k
\* alone; when it is never set the returned collection is the patterns of all
\* live entries.
C9_ConcreteSolutionStopsDriver ==
    /\ concrete_solution_index # -1 =>
          /\ concrete_solution_index \in LiveIndices
          /\ pc \in {"output", "done"}
          /\ pc = "done" => patterns = << PatternOf(concrete_solution_index) >>
    /\ (pc = "done" /\ concrete_solution_index = -1) =>
          /\ Range(patterns) = { PatternOf(i) : i \in LiveIndices }
          /\ Len(patterns) = Cardinality(LiveIndices)

\* a concrete solution returned while another entry is live
C9_Witness ==
    /\ pc = "done" /\ concrete_solution_index # -1
    /\ Cardinality(LiveIndices) >= 2
    /\ Len(patterns) = 1

\* ops is applicable step by step from state, with every precondition
\* holding, and ends in a goal state
RECURSIVE IsConcretePlan(_, _)
IsConcretePlan(state, ops) ==
    IF ops = << >> THEN is_goal_state(state)
    ELSE /\ \A v \in DOMAIN task.ops[Head(ops)].pre :
               state[v] = task.ops[Head(ops)].pre[v]
         /\ IsConcretePlan(get_unregistered_successor(state, task.ops[Head(ops)]),
                           Tail(ops))

\* the operators chosen while projecting the plan of entry k
AppliedOps(k) == ExecutePlan(solutions[k + 1].plan, 1, task.init, k, << >>).applied

\* C10: concrete_solution_index is set to k only if the blacklist is empty and
\* the operators chosen while projecting entry k's plan, one for every step,
\* are a plan of the concrete task.
C10_ConcreteSolutionIsPlan ==
    concrete_solution_index # -1 =>
        /\ global_blacklist = {}
        /\ Len(AppliedOps(concrete_solution_index))
              = Len(solutions[concrete_solution_index + 1].plan)
        /\ IsConcretePlan(task.init, AppliedOps(concrete_solution_index))

\* a concrete solution of several steps, found after a refinement
C10_Witness ==
    /\ concrete_solution_index # -1
    /\ refinement_counter > 0
    /\ Len(AppliedOps(concrete_solution_index)) >= 2


\* C11: the driver calls refine at most max_refinements times (refinement_counter
\* counts the calls), and with max_refinements = 0 it returns the seeded
\* collection: every slot live, one goal variable each, nothing handled.
C11_AtMostMaxRefinements ==
    /\ refinement_counter <= max_refinements
    /\ (max_refinements = 0 /\ pc = "done") =>
          /\ handled = "none"
          /\ \A n \in DOMAIN solutions :
                ~solutions[n].null /\ Len(solutions[n].pattern) = 1
          /\ patterns = [n \in DOMAIN solutions |-> solutions[n].pattern]

\* the refinement cap ends a run that still had a flaw to handle
C11_Witness ==
    /\ pc = "done" /\ ~timer_expired
    /\ max_refinements = 1 /\ refinement_counter = 1
    /\ concrete_solution_index = -1
    /\ get_flaws.flaws # << >>


\* C12: with ignore_goal_violations the returned collection holds exactly one
\* pattern, whatever `initial` is.
C12_IgnoreGoalViolationsGivesOnePattern ==
    (ignore_goal_violations /\ pc = "done") => Len(patterns) = 1


SolvedIndices == { i \in LiveIndices : solutions[i + 1].is_solved }

\* C13 as claimed: an entry marked solved stays in its slot, unchanged, in
\* every later step.
C13_SolvedIsFrozen ==
    [][\A i \in SolvedIndices : solutions'[i + 1] = solutions[i + 1]]_vars

\* C13, amended: an entry marked solved is never extended, replaced or
\* unmarked; it stays unchanged in its slot until the driver returns or until
\* a merge, made for a flaw of another entry on one of its variables, empties
\* its slot and moves its variables into the merged, unsolved entry.
C13_SolvedFrozenUntilMerged ==
    [][\A i \in SolvedIndices :
          \/ solutions'[i + 1] = solutions[i + 1]
          \/ /\ handled' = "merge"
             /\ solutions'[i + 1].null
             /\ \E k \in 0 .. (Len(solutions) - 1) :
                   /\ k # i
                   /\ ~solutions[k + 1].null /\ ~solutions[k + 1].is_solved
                   /\ ~solutions'[k + 1].null /\ ~solutions'[k + 1].is_solved
                   /\ Range(solutions'[k + 1].pattern)
                         = Range(PatternOf(k)) \cup Range(PatternOf(i))
                   /\ \E n \in DOMAIN flaws :
                         /\ flaws[n].solution_index = k
                         /\ flaws[n].variable \in Range(PatternOf(i))]_vars

\* a solved entry that has lived through a refinement of another entry
C13_Witness ==
    /\ pc = "loop" /\ refinement_counter > 0
    /\ handled \in {"merge", "extend"}
    /\ SolvedIndices # {}


InLivePattern(v, sols) == \E n \in DOMAIN sols : ~sols[n].null /\ v \in Range(sols[n].pattern)

\* C14 as claimed: a variable is in no live pattern at the moment it is added
\* to the global blacklist.
C14_BlacklistedNotInPattern ==
    [][\A v \in global_blacklist' \ global_blacklist : ~InLivePattern(v, solutions)]_vars

\* C14, amended: a variable blacklisted by the initial random selection, or by
\* the refiner because the flawed entry could not be extended by it, is in no
\* live pattern at that moment; a variable blacklisted because a merge was
\* infeasible is at that moment in the live pattern of the other entry (never
\* in the pattern of the entry the flaw is about).
C14_BlacklistedOnlyInOtherPattern ==
    [][\A v \in global_blacklist' \ global_blacklist :
          IF pc = "start"
          THEN ~InLivePattern(v, solutions) /\ ~InLivePattern(v, solutions')
          ELSE \E n \in DOMAIN flaws :
                  LET k == flaws[n].solution_index
                  IN  /\ flaws[n].variable = v
                      /\ v \notin Range(PatternOf(k))
                      /\ IF v \in DOMAIN solution_lookup
                         THEN /\ solution_lookup[v] # k
                              /\ v \in Range(PatternOf(solution_lookup[v]))
                              /\ ~can_merge_patterns(Collection, k, solution_lookup[v])
                         ELSE /\ ~InLivePattern(v, solutions)
                              /\ ~can_add_variable_to_pattern(Collection, k, v)]_vars

\* the refiner has blacklisted a variable of a live pattern
C14_Witness ==
    /\ handled = "blacklist" /\ pc = "loop"
    /\ \E v \in global_blacklist : InLivePattern(v, solutions)


\* C15: after seeding and after every refinement step remaining_goals holds
\* exactly the goal variables that are in no live pattern, each once.
C15_RemainingGoalsAreUnplacedGoals ==
    Seeded =>
        /\ Range(remaining_goals) = { g \in GoalVars : ~InLivePattern(g, solutions) }
        /\ Len(remaining_goals) = Cardinality(Range(remaining_goals))

\* an extension has just put a second goal variable into a live pattern
C15_Witness ==
    /\ handled = "extend" /\ pc = "loop"
    /\ \E i \in LiveIndices : Cardinality(GoalVars \cap Range(PatternOf(i))) >= 2


\* the state the main loop is entered in: the blacklist is the initial selection
AfterInitialSelection == pc = "loop" /\ refinement_counter = 0 /\ handled = "none"

\* C16: the initial random selection blacklists non-goal variables only,
\* exactly min(global_blacklist_size, number of non-goal variables) of them,
\* none of them is in a pattern then, and a blacklisted variable that is in
\* no live pattern stays blacklisted and is in no live pattern after any
\* step, nor in a pattern of the output.
C16_InitialBlacklistKeptOut ==
    /\ [](AfterInitialSelection =>
            /\ global_blacklist \subseteq Variables \ GoalVars
            /\ Cardinality(global_blacklist) =
                  Min(global_blacklist_size, Cardinality(Variables \ GoalVars))
            /\ \A v \in global_blacklist : ~InLivePattern(v, solutions))
    /\ [][\A v \in global_blacklist :
            ~InLivePattern(v, solutions) =>
                /\ v \in global_blacklist'
                /\ ~InLivePattern(v, solutions')
                /\ \A n \in DOMAIN patterns' : v \notin Range(patterns'[n])]_vars

\* a variable of the initial selection was needed by a precondition of the
\* plan, and the run went on to extend a pattern and to output the collection
C16_Witness ==
    /\ pc = "done" /\ handled = "extend"
    /\ global_blacklist_size = 1 /\ Cardinality(global_blacklist) = 1
    /\ \E v \in global_blacklist : \E n \in DOMAIN task.ops :
          v \in DOMAIN task.ops[n].pre


\* C18: a refinement step handles one flaw (k, v) of the list: it merges k
\* with solution_lookup[v] iff v is in the look-up table and the merge is
\* feasible, extends k by v iff v is not in the table and the extension is
\* feasible, and blacklists v otherwise.  Blacklisting changes nothing but
\* the blacklist; merging and extending leave the blacklist unchanged.
C18_ExactlyOneOfMergeExtendBlacklist ==
    [][(pc = "refine" /\ pc' = "loop") =>
         \E n \in DOMAIN flaws :
            LET k == flaws[n].solution_index
                v == flaws[n].variable
            IN  IF v \in DOMAIN solution_lookup
                THEN IF can_merge_patterns(Collection, k, solution_lookup[v])
                     THEN /\ handled' = "merge"
                          /\ solutions'[solution_lookup[v] + 1].null
                          /\ solutions'[k + 1].pattern =
                                MergedPattern(Collection, k, solution_lookup[v])
                          /\ global_blacklist' = global_blacklist
                     ELSE /\ handled' = "blacklist"
                          /\ global_blacklist' = global_blacklist \cup {v}
                          /\ UNCHANGED << solutions, solution_lookup, collection_size,
                                          remaining_goals >>
                ELSE IF can_add_variable_to_pattern(Collection, k, v)
                     THEN /\ handled' = "extend"
                          /\ solutions'[k + 1].pattern = ExtendedPattern(Collection, k, v)
                          /\ Len(solutions') = Len(solutions)
                          /\ \A i \in LiveIndices \ {k} : solutions'[i + 1] = solutions[i + 1]
                          /\ global_blacklist' = global_blacklist
                     ELSE /\ handled' = "blacklist"
                          /\ global_blacklist' = global_blacklist \cup {v}
                          /\ UNCHANGED << solutions, solution_lookup, collection_size,
                                          remaining_goals >>]_vars

\* a goal variable has been blacklisted while it was waiting in remaining_goals
C18_Witness ==
    /\ handled = "blacklist" /\ pc = "loop"
    /\ global_blacklist \cap Range(remaining_goals) # {}


IsSorted(pattern) ==
    \A m, n \in DOMAIN pattern : m < n => pattern[m] < pattern[n]

\* C19: a merge step takes two live entries i # j; afterwards slot i holds an
\* unsolved entry whose pattern is the sorted union of the two patterns, slot
\* j is empty, every other slot is as before, there is one live entry less,
\* and collection_size has changed by new size - size of i - size of j.
C19_MergeReplacesTwoByOne ==
    [][(pc = "refine" /\ pc' = "loop" /\ handled' = "merge") =>
         \E i, j \in LiveIndices :
            /\ i # j
            /\ \E n \in DOMAIN flaws :
                  /\ flaws[n].solution_index = i
                  /\ flaws[n].variable \in Range(PatternOf(j))
            /\ ~solutions'[i + 1].null
            /\ ~solutions'[i + 1].is_solved
            /\ IsSorted(solutions'[i + 1].pattern)
            /\ Range(solutions'[i + 1].pattern) = Range(PatternOf(i)) \cup Range(PatternOf(j))
            /\ solutions'[j + 1] = nullptr
            /\ Len(solutions') = Len(solutions)
            /\ \A k \in 0 .. (Len(solutions) - 1) :
                  k \notin {i, j} => solutions'[k + 1] = solutions[k + 1]
            /\ Cardinality(LiveIndices') = Cardinality(LiveIndices) - 1
            /\ collection_size' - collection_size =
                  get_size(solutions'[i + 1].pattern)
                     - get_size(PatternOf(i)) - get_size(PatternOf(j))]_vars

\* a merge has put its entry in a slot behind the slot it emptied, and a third
\* entry is live
C19_Witness ==
    /\ handled = "merge" /\ pc = "loop"
    /\ \E i, k \in LiveIndices : \E j \in 0 .. (Len(solutions) - 1) :
          /\ j < i /\ solutions[j + 1].null
          /\ Len(PatternOf(i)) >= 2 /\ ~solutions[i + 1].is_solved
          /\ k # i


\* C20: the variable of a flaw is not in the pattern of the flaw's entry; when
\* it is in the look-up table it belongs to another, live entry, so neither
\* assertion of handle_flaw fails (the only assertion that can fail is the one
\* of seeding, before there is any entry).
C20_FlawVariableNotInOwnPattern ==
    /\ \A n \in DOMAIN flaws :
          LET k == flaws[n].solution_index
              v == flaws[n].variable
          IN  /\ k \in LiveIndices
              /\ v \notin Range(PatternOf(k))
              /\ v \in DOMAIN solution_lookup =>
                    /\ solution_lookup[v] # k
                    /\ solution_lookup[v] \in LiveIndices
    /\ pc \in {"assertion_failure", "undefined_behaviour"} => solutions = << >>

\* the plan of an entry with two variables has run into a precondition on a
\* variable of another entry
C20_Witness ==
    /\ pc = "refine"
    /\ \E n \in DOMAIN flaws :
          /\ flaws[n].variable \in DOMAIN solution_lookup
          /\ Len(PatternOf(flaws[n].solution_index)) >= 2


\* the precondition variables of op, blacklisted ones aside, that state violates
ViolatedPreconditions(op, state) ==
    { v \in DOMAIN op.pre \ global_blacklist : state[v] # op.pre[v] }

\* position of the first alternative of a step with no violated precondition, 0 if none
FirstApplicable(equivalent_ops, state) ==
    IF \E i \in DOMAIN equivalent_ops :
          ViolatedPreconditions(task.ops[equivalent_ops[i]], state) = {}
    THEN CHOOSE i \in DOMAIN equivalent_ops :
            /\ ViolatedPreconditions(task.ops[equivalent_ops[i]], state) = {}
            /\ \A j \in 1 .. (i - 1) :
                  ViolatedPreconditions(task.ops[equivalent_ops[j]], state) # {}
    ELSE 0

\* the states the projection of plan goes through from step n in state on,
\* applying the first applicable alternative of every step, up to the state
\* in which a step has no applicable alternative or the plan has ended
RECURSIVE ProjectedStates(_, _, _)
ProjectedStates(plan, n, state) ==
    IF n > Len(plan) \/ FirstApplicable(plan[n], state) = 0
    THEN << state >>
    ELSE << state >> \o
         ProjectedStates(plan, n + 1,
             get_unregistered_successor(
                 state, task.ops[plan[n][FirstApplicable(plan[n], state)]]))

FlawVariablesOf(k) ==
    { flaws[n].variable : n \in { x \in DOMAIN flaws : flaws[x].solution_index = k } }

\* C21: for every entry projected by the last flaw extraction, the operators
\* applied are the first applicable alternatives of the steps before the first
\* step without an applicable alternative; when there is such a step the
\* projection stops there and the entry's flaws are exactly the violated,
\* non-blacklisted precondition variables of that step's alternatives in the
\* state reached (nothing of earlier steps or skipped alternatives is kept).
C21_FirstApplicableAlternativeApplied ==
    pc = "refine" =>
        \A k \in LiveIndices \ SolvedIndices :
           LET plan == solutions[k + 1].plan
               states == ProjectedStates(plan, 1, task.init)
               m == Len(states)
           IN  /\ AppliedOps(k) =
                     [n \in 1 .. (m - 1) |->
                         plan[n][FirstApplicable(plan[n], states[n])]]
               /\ m <= Len(plan) =>
                     FlawVariablesOf(k) =
                        UNION { ViolatedPreconditions(task.ops[plan[m][i]], states[m]) :
                                  i \in DOMAIN plan[m] }

\* the first alternative of a step was skipped for a violated precondition,
\* another one was applied, and a later step failed on a different variable
C21_Witness ==
    /\ pc = "refine"
    /\ \E k \in LiveIndices \ SolvedIndices :
          LET plan == solutions[k + 1].plan
              states == ProjectedStates(plan, 1, task.init)
              m == Len(states)
          IN  /\ m <= Len(plan)
              /\ \E n \in 1 .. (m - 1) :
                    /\ FirstApplicable(plan[n], states[n]) > 1
                    /\ ViolatedPreconditions(task.ops[plan[n][1]], states[n])
                          \cap FlawVariablesOf(k) = {}
              /\ FlawVariablesOf(k) # {}


\* the state in which the projection of entry k's plan ends
FinalState(k) ==
    LET states == ProjectedStates(solutions[k + 1].plan, 1, task.init)
    IN  states[Len(states)]

\* every step of entry k's plan has an applicable alternative
FullyApplied(k) ==
    Len(ProjectedStates(solutions[k + 1].plan, 1, task.init)) > Len(solutions[k + 1].plan)

\* C22: when the plan of a projected entry was fully applied without reaching
\* a concrete goal state and goal violations are not ignored, the entry's
\* flaws are exactly the unsatisfied goal variables that are not blacklisted
\* and still in remaining_goals, and the entry stays unsolved also when there
\* are none.  Flaw extraction marks an entry solved only if its plan was fully
\* applied and either the goal was reached with a non-empty blacklist or the
\* goal was not reached and goal violations are ignored.
C22_GoalViolationFlaws ==
    /\ [](pc = "refine" =>
            \A k \in LiveIndices \ SolvedIndices :
               (FullyApplied(k) /\ ~is_goal_state(FinalState(k))) =>
                  /\ ~ignore_goal_violations
                  /\ FlawVariablesOf(k) =
                        { g \in GoalVars \cap Range(remaining_goals) :
                            /\ FinalState(k)[g] # task.goal[g]
                            /\ g \notin global_blacklist })
    /\ [][\A k \in LiveIndices \ SolvedIndices :
            (k \in LiveIndices' /\ solutions'[k + 1].is_solved) =>
               /\ pc = "loop"
               /\ solutions'[k + 1] = [solutions[k + 1] EXCEPT !.is_solved = TRUE]
               /\ FullyApplied(k)
               /\ IF is_goal_state(FinalState(k))
                  THEN global_blacklist # {}
                  ELSE ignore_goal_violations]_vars

\* a fully applied plan has missed two goals, one of which is blacklisted,
\* and the flaw is on the other
C22_Witness ==
    /\ pc = "refine" /\ ~ignore_goal_violations
    /\ \E k \in LiveIndices \ SolvedIndices :
          /\ FullyApplied(k)
          /\ FlawVariablesOf(k) # {}
          /\ \E g \in GoalVars \cap global_blacklist :
                FinalState(k)[g] # task.goal[g]


\* The driver keeps running.  From the positions in Running generate() always
\* has a next step (validation and seeding, the loop test, flaw extraction,
\* the time test and the refinement, the output), every such step changes pc,
\* and the timer's expiry, the one step that is not the driver's, does not.
\* So "some step of the driver can be taken" is pc \in Running and "a step of
\* the driver is taken" is a change of pc.  Whether and when the timer runs
\* out is left open.
Running == {"start", "loop", "refine", "output"}
Stopped == {"done", "input_error", "unsolvable", "assertion_failure", "undefined_behaviour"}
Advance == pc \in Running /\ pc' \in (Running \cup Stopped) \ {pc}

FairSpec == Spec /\ WF_pc(Advance)

VariablesInPatterns(sols) == { v \in Variables : InLivePattern(v, sols) }

\* C24: every refinement step makes progress that no step undoes (a merge
\* leaves one live entry less, an extension adds a variable that was in no
\* pattern, a blacklisting adds a variable that was not blacklisted; no
\* variable ever leaves the patterns or the blacklist, no entry is added), and
\* a driver in its main loop, whatever max_refinements and the timer are,
\* leaves the loop: with an empty flaw list (a concrete solution included),
\* unsolvable, or through a limit.
C24_RefinementLoopTerminates ==
    /\ [][/\ global_blacklist \subseteq global_blacklist'
          /\ Seeded =>
                /\ VariablesInPatterns(solutions) \subseteq VariablesInPatterns(solutions')
                /\ Cardinality(LiveIndices') <= Cardinality(LiveIndices)
          /\ (pc = "refine" /\ pc' = "loop") =>
                \/ /\ handled' = "merge"
                   /\ Cardinality(LiveIndices') = Cardinality(LiveIndices) - 1
                \/ /\ handled' = "extend"
                   /\ VariablesInPatterns(solutions) # VariablesInPatterns(solutions')
                \/ /\ handled' = "blacklist"
                   /\ global_blacklist # global_blacklist']_vars
    /\ (pc = "loop") ~> (pc \in {"output", "unsolvable"})
    /\ (pc = "loop" /\ max_refinements = Infinity /\ ~max_time_finite)
          ~> \/ pc = "unsolvable"
             \/ pc = "output" /\ flaws = << >>

\* with no limit on refinements and on time the loop was left after several
\* refinements, a blacklisting among them, because no flaw was left
C24_Witness ==
    /\ pc = "done" /\ max_refinements = Infinity /\ ~max_time_finite
    /\ concrete_solution_index = -1
    /\ refinement_counter >= 2
    /\ global_blacklist # {}

\* C25: the slots are those of seeding (one per goal variable with ALL_GOALS,
\* one otherwise); no later step adds a slot or a live entry; with GIVEN_GOAL
\* or RANDOM_GOAL slot 0 holds the one live entry and nothing is ever merged;
\* a variable new to the patterns, goal variables included, joins an entry
\* that was live before and never gets an entry of its own.
C25_SlotsFixedBySeeding ==
    /\ [](Seeded =>
            /\ Len(solutions) =
                  (IF initial = "ALL_GOALS" THEN Cardinality(GoalVars) ELSE 1)
            /\ initial # "ALL_GOALS" => LiveIndices = {0} /\ handled # "merge")
    /\ [][Seeded =>
            /\ Len(solutions') = Len(solutions)
            /\ LiveIndices' \subseteq LiveIndices
            /\ \A v \in VariablesInPatterns(solutions') \ VariablesInPatterns(solutions) :
                  \E i \in LiveIndices :
                     /\ Range(solutions'[i + 1].pattern) = Range(PatternOf(i)) \cup {v}
                     /\ \E n \in DOMAIN flaws :
                           flaws[n].solution_index = i /\ flaws[n].variable = v]_vars

\* seeded with one goal only, the entry took in a second goal variable
C25_Witness ==
    /\ initial \in {"GIVEN_GOAL", "RANDOM_GOAL"}
    /\ pc = "loop" /\ handled = "extend"
    /\ Len(solutions) = 1
    /\ Cardinality(GoalVars \cap Range(PatternOf(0))) >= 2

(***************************************************************************)
(* The feasibility predicates in machine arithmetic.  The sizes and limits *)
(* are C++ ints; here an int has IntWidth bits.  The product is computed   *)
(* only after is_product_within_limit has bounded it by max_pdb_size, so   *)
(* the one operation that can leave the range is collection_size +         *)
(* added_size.  Signed overflow is undefined: a build can wrap the sum,    *)
(* compare in a wider register, or trap.                                   *)
(***************************************************************************)
IntWidth == 6
IntMax == 2 ^ (IntWidth - 1) - 1
IntMin == -(2 ^ (IntWidth - 1))
Wrap(x) == ((x - IntMin) % (2 ^ IntWidth)) + IntMin
IntOverflows(x) == x > IntMax \/ x < IntMin

\* the values `x + y <= limit` can have
SumWithinLimit(x, y, limit) ==
    IF IntOverflows(x + y)
    THEN { Wrap(x + y) <= limit, x + y <= limit }
    ELSE { x + y <= limit }

\* Cegar::can_merge_patterns with ints of IntWidth bits: the values it can return
can_merge_patterns_int(c, index1, index2) ==
    LET pdb_size1 == get_size(c.solutions[index1 + 1].pattern)
        pdb_size2 == get_size(c.solutions[index2 + 1].pattern)
        added_size == pdb_size1 * pdb_size2 - pdb_size1 - pdb_size2
    IN  IF ~is_product_within_limit(pdb_size1, pdb_size2, max_pdb_size)
        THEN { FALSE }
        ELSE SumWithinLimit(c.collection_size, added_size, max_collection_size)

\* Cegar::can_add_variable_to_pattern with ints of IntWidth bits
can_add_variable_to_pattern_int(c, index, var) ==
    LET pdb_size == get_size(c.solutions[index + 1].pattern)
        domain_size == task.dom[var]
        added_size == pdb_size * domain_size - pdb_size
    IN  IF ~is_product_within_limit(pdb_size, domain_size, max_pdb_size)
        THEN { FALSE }
        ELSE SumWithinLimit(c.collection_size, added_size, max_collection_size)

\* collection_size + added_size of the refinement the flaw asks for
IntSumOfFlaw(flaw) ==
    LET pdb_size == get_size(solutions[flaw.solution_index + 1].pattern)
        other_size == IF flaw.variable \in DOMAIN solution_lookup
                      THEN get_size(solutions[solution_lookup[flaw.variable] + 1].pattern)
                      ELSE task.dom[flaw.variable]
        added_size == IF flaw.variable \in DOMAIN solution_lookup
                      THEN pdb_size * other_size - pdb_size - other_size
                      ELSE pdb_size * other_size - pdb_size
    IN  collection_size + added_size

IntDomainSizes == {2, 3, 5, 7, 11, 13}
IntGoalSets == { {0, 1}, {0, 1, 2} }

\* A collection seeded with one entry per goal variable (ALL_GOALS), whose
\* sizes add up within the range of an int, and one flaw to handle.
IntInit ==
    /\ \E dom \in [0 .. 2 -> IntDomainSizes] : \E goals \in IntGoalSets :
          /\ task = [dom |-> dom, init |-> [v \in 0 .. 2 |-> 0],
                     goal |-> [g \in goals |-> 0], ops |-> << >>]
          /\ solutions = [n \in 1 .. Cardinality(goals) |-> Entry(<< n - 1 >>, << >>, TRUE)]
          /\ solution_lookup = [g \in goals |-> g]
          /\ collection_size = SumOfLivePdbSizes(solutions)
          /\ ~IntOverflows(collection_size)
          /\ \E k \in goals : \E v \in (0 .. 2) \ {k} : flaws = << Flaw(k, v) >>
    /\ max_refinements = IntMax
    /\ max_pdb_size \in {IntMax \div 2, IntMax}
    /\ max_collection_size \in {IntMax \div 2, IntMax}
    /\ wildcard_plans = TRUE
    /\ ignore_goal_violations = FALSE
    /\ global_blacklist_size = 0
    /\ initial = "ALL_GOALS"
    /\ given_goal = -1
    /\ max_time_finite = FALSE
    /\ timer_expired = FALSE
    /\ remaining_goals = << >>
    /\ global_blacklist = {}
    /\ concrete_solution_index = -1
    /\ refinement_counter = 0
    /\ handled = "none"
    /\ patterns = << >>
    /\ pc = "refine"

IntRefined ==
    /\ refinement_counter' = refinement_counter + 1
    /\ flaws' = << >>
    /\ UNCHANGED << options, timer_expired, concrete_solution_index, patterns >>

\* handle_flaw, merge branch: can_merge_patterns returned true
IntMerge ==
    /\ pc = "refine"
    /\ flaws[1].variable \in DOMAIN solution_lookup
    /\ LET index1 == flaws[1].solution_index
           index2 == solution_lookup[flaws[1].variable]
           merged == Entry(MergedPattern(Collection, index1, index2), << >>, TRUE)
       IN  /\ TRUE \in can_merge_patterns_int(Collection, index1, index2)
           /\ SetCollection([merge_patterns(Collection, index1, index2, merged)
                                EXCEPT !.collection_size = Wrap(@)])
    /\ handled' = "merge"
    /\ pc' = "loop"
    /\ UNCHANGED global_blacklist
    /\ IntRefined

\* handle_flaw, extension branch: can_add_variable_to_pattern returned true
IntExtend ==
    /\ pc = "refine"
    /\ flaws[1].variable \notin DOMAIN solution_lookup
    /\ LET index == flaws[1].solution_index
           var == flaws[1].variable
           new_solution == Entry(ExtendedPattern(Collection, index, var), << >>, TRUE)
       IN  /\ TRUE \in can_add_variable_to_pattern_int(Collection, index, var)
           /\ SetCollection([add_variable_to_pattern(Collection, index, var, new_solution)
                                EXCEPT !.collection_size = Wrap(@)])
    /\ handled' = "extend"
    /\ pc' = "loop"
    /\ UNCHANGED global_blacklist
    /\ IntRefined

\* handle_flaw, last branch: the predicate returned false
IntBlacklist ==
    /\ pc = "refine"
    /\ FALSE \in (IF flaws[1].variable \in DOMAIN solution_lookup
                  THEN can_merge_patterns_int(Collection, flaws[1].solution_index,
                                              solution_lookup[flaws[1].variable])
                  ELSE can_add_variable_to_pattern_int(Collection, flaws[1].solution_index,
                                                       flaws[1].variable))
    /\ Blacklist(flaws[1].variable)
    /\ IntRefined

\* a build that traps on signed overflow stops in the predicate
IntOverflowTrap ==
    /\ pc = "refine"
    /\ LET pdb_size1 == get_size(solutions[flaws[1].solution_index + 1].pattern)
           size2 == IF flaws[1].variable \in DOMAIN solution_lookup
                    THEN get_size(solutions[solution_lookup[flaws[1].variable] + 1].pattern)
                    ELSE task.dom[flaws[1].variable]
       IN  is_product_within_limit(pdb_size1, size2, max_pdb_size)
    /\ IntOverflows(IntSumOfFlaw(flaws[1]))
    /\ pc' = "undefined_behaviour"
    /\ UNCHANGED << options, timer_expired, collection, refinement_counter, flaws,
                    handled, patterns >>

IntNext == IntMerge \/ IntExtend \/ IntBlacklist \/ IntOverflowTrap

SpecInt == IntInit /\ [][IntNext]_vars

\* C23 as claimed: with ints of fixed width a merge or an extension is
\* accepted only if the exact value of collection_size + added_size is at most
\* max_collection_size.
C23_AcceptedOnlyWithinCollectionLimit ==
    [][(pc = "refine" /\ handled' \in {"merge", "extend"}) =>
          IntSumOfFlaw(flaws[1]) <= max_collection_size]_vars

====
